---- MODULE Spec2Model ----
(***************************************************************************)
(* A model of the diary JSON logger (src/diary.go) and of the caller       *)
(* resolver it uses (the second Go file, carried in src/README.md).        *)
(*                                                                         *)
(* State: the loggers built so far, the heap of context maps they refer    *)
(* to, the contents of every writer, the invocation count of every lazy    *)
(* value generator, the clock, and the description of the last operation.  *)
(***************************************************************************)
EXTENDS Integers, Sequences, FiniteSets, TLC

VARIABLES loggers,   \* the *Logger values built so far; loggers[1] is defaultLogger
          heap,      \* the context maps loggers refer to; reference 0 is the nil map
          sink,      \* writer -> the sequence of byte chunks it has accepted
          calls,     \* generator name -> how often the wrapped function has run
          now,       \* the clock time.Now() reads
          ncalls,    \* logging calls made so far
          proc,      \* "running", "exited" (os.Exit was called) or "crashed"
          goroutines, \* goroutine -> where it is in the logging call it makes
          family,    \* history: for each logger, how it was built
          last       \* history: the last operation, its inputs and what it did

vars == <<loggers, heap, sink, calls, now, ncalls, proc, goroutines, family, last>>

----------------------------------------------------------------------------
(* Bounds of the model. *)

MaxLoggers == 1      \* loggers built besides defaultLogger
MaxFamily == 2       \* the same, where parents and children are what is looked at
MaxCalls == 2        \* logging calls in one behaviour
MaxLevelValue == 5   \* the largest integer converted to a Level
MaxGoroutines == 2   \* goroutines that log concurrently

----------------------------------------------------------------------------
(* Constants of the program. *)

DefaultTimeKey == "ts"
DefaultLevelKey == "lvl"
DefaultMessageKey == "message"
DefaultCallerKey == "caller"
DefaultCallerSkip == 2

LevelFatal == 0
LevelError == 1
LevelInfo == 2
LevelDebug == 3

Levels == {LevelFatal, LevelError, LevelInfo, LevelDebug}

levelsMap == [l \in Levels |->
                CASE l = LevelDebug -> "debug"
                  [] l = LevelInfo -> "info"
                  [] l = LevelError -> "error"
                  [] l = LevelFatal -> "fatal"]

\* Level.String
String(l) == IF l \in DOMAIN levelsMap THEN levelsMap[l] ELSE "unknown"

\* (mutant) only the canonical names are accepted
LevelFromStringCanonical(levelString) ==
    CASE levelString = "debug" -> [level |-> LevelDebug, err |-> FALSE]
      [] levelString = "info" -> [level |-> LevelInfo, err |-> FALSE]
      [] levelString = "error" -> [level |-> LevelError, err |-> FALSE]
      [] levelString = "fatal" -> [level |-> LevelFatal, err |-> FALSE]
      [] OTHER -> [level |-> LevelDebug, err |-> TRUE]

\* LevelFromString: the switch, case by case; the default returns
\* LevelDebug together with the error.
LevelFromString(levelString) ==
    CASE levelString = "debug" -> [level |-> LevelDebug, err |-> FALSE]
      [] levelString = "info" -> [level |-> LevelInfo, err |-> FALSE]
      [] levelString \in {"error", "eror", "err"} -> [level |-> LevelError, err |-> FALSE]
      [] levelString = "fatal" -> [level |-> LevelFatal, err |-> FALSE]
      [] OTHER -> [level |-> LevelDebug, err |-> TRUE]

----------------------------------------------------------------------------
(* Values a Context can hold.  A plain string, or a Value{Func} whose Func  *)
(* is described by what reflect reports of it: shape "nil" for Func == nil, *)
(* "notfunc" for a non-function, "func" for a function of in parameters    *)
(* and out results.  A generator named g returns, at its n-th run, the     *)
(* text g with the ordinal n (and each further result likewise).            *)

Str(s) == [kind |-> "str", s |-> s, n |-> 0, shape |-> "", in |-> 0, out |-> 0]
Lazy(g, shape, in, out) ==
    [kind |-> "lazy", s |-> g, n |-> 0, shape |-> shape, in |-> in, out |-> out]

\* What json.Marshal produces for one value: a JSON string of text s (with
\* the ordinal n where the text carries one), or a JSON array of len results.
JString(s, n) == [json |-> "string", s |-> s, n |-> n, len |-> 0]
JArray(s, n, len) == [json |-> "array", s |-> s, n |-> n, len |-> len]
JNone == [json |-> "none", s |-> "", n |-> 0, len |-> 0]

EmptyContext == [k \in {} |-> Str("")]

\* (mutant) the first source to define a key keeps it
OverlayFirstWins(a, b) ==
    [k \in DOMAIN a \cup DOMAIN b |-> IF k \in DOMAIN a THEN a[k] ELSE b[k]]

\* for k, v := range b { a[k] = v }
Overlay(a, b) == [k \in DOMAIN a \cup DOMAIN b |-> IF k \in DOMAIN b THEN b[k] ELSE a[k]]

\* m[k] = v
Put(m, k, v) == [x \in DOMAIN m \cup {k} |-> IF x = k THEN v ELSE m[x]]

\* Context{k: v}
One(k, v) == [x \in {k} |-> v]

----------------------------------------------------------------------------
(* Value.MarshalJSON: the reflect checks in the order the code makes them,  *)
(* then one call of the wrapped function.  count is how often generator    *)
(* v.s has run before.  reflect.TypeOf(nil) is the nil Type, whose Kind()  *)
(* dereferences nil: a run-time panic, which json.Marshal does not turn    *)
(* into an error.                                                          *)

\* (mutant) the result of the first call is kept and returned again
MarshalJSONCached(v, count) ==
    IF v.shape # "func" \/ v.in > 0 \/ v.out = 0
    THEN [res |-> "err", json |-> JNone, ran |-> 0]
    ELSE IF count >= 1
    THEN [res |-> "ok", ran |-> 0,
          json |-> IF v.out = 1 THEN JString(v.s, 1) ELSE JArray(v.s, 1, v.out)]
    ELSE [res |-> "ok", ran |-> 1,
          json |-> IF v.out = 1 THEN JString(v.s, 1) ELSE JArray(v.s, 1, v.out)]

MarshalJSON(v, count) ==
    IF v.shape = "nil" THEN [res |-> "panic", json |-> JNone, ran |-> 0]
    ELSE IF v.shape # "func" THEN [res |-> "err", json |-> JNone, ran |-> 0]
    ELSE IF v.in > 0 THEN [res |-> "err", json |-> JNone, ran |-> 0]
    ELSE IF v.out = 0 THEN [res |-> "err", json |-> JNone, ran |-> 0]
    ELSE IF v.out = 1 THEN [res |-> "ok", json |-> JString(v.s, count + 1), ran |-> 1]
    ELSE [res |-> "ok", json |-> JArray(v.s, count + 1, v.out), ran |-> 1]

----------------------------------------------------------------------------
(* The caller resolver.  A stack is the sequence of function names from    *)
(* the innermost frame outwards; runtime.Callers numbers them from 0, its  *)
(* own frame.                                                              *)

AppStack == <<"main.helper", "main.main">>

\* The stack inside caller() when the application called Logger.<Level>
\* ("method") or the package-level <Level> ("package").
Stack(entry) ==
    <<"runtime.Callers", "diary.caller", "diary.(*Logger).write", "diary.(*Logger).Level">>
    \o (IF entry = "package" THEN <<"diary.Level">> ELSE <<>>)
    \o AppStack \o <<"runtime.main", "runtime.goexit">>

NoFunc == ""

\* runtime.Callers(from, pcs) with len(pcs) = 2: the frames from, from+1.
Callers(stack, from) ==
    [i \in 1..(IF Len(stack) - from >= 2 THEN 2
               ELSE IF Len(stack) - from >= 1 THEN 1 ELSE 0) |-> stack[from + i]]

\* caller(skip): the Call of frame skip+2, the zero Call when fewer than
\* two frames are left.
caller(stack, skip) ==
    LET pcs == Callers(stack, skip + 1)
    IN  IF Len(pcs) < 2 THEN [kind |-> "call", s |-> NoFunc, n |-> 0, shape |-> "", in |-> 0, out |-> 0]
        ELSE [kind |-> "call", s |-> pcs[2], n |-> 0, shape |-> "", in |-> 0, out |-> 0]

\* Call.MarshalText: ErrNoFunc for the zero Call, else the formatted location.
MarshalText(c) ==
    IF c.s = NoFunc THEN [res |-> "err", json |-> JNone, ran |-> 0]
    ELSE [res |-> "ok", json |-> JString(c.s, 0), ran |-> 0]

----------------------------------------------------------------------------
(* json.Marshal of a record map: the keys in sorted order, each value by   *)
(* its marshaler; the first failure ends the encoding.                      *)

\* Every key of the model, in byte order.
KeyOrder ==
    <<"", "bad", "bar", "caller", "foo", "hello", "kid", "level", "lvl", "m", "message",
      "msg", "pair", "time", "ts", "zap">>

MarshalValue(v, count) ==
    CASE v.kind = "str" -> [res |-> "ok", json |-> JString(v.s, v.n), ran |-> 0]
      [] v.kind = "lazy" -> MarshalJSON(v, count)
      [] v.kind = "call" -> MarshalText(v)

\* The position of key k in the sorted order.
Rank(k) == CHOOSE i \in 1..Len(KeyOrder) : KeyOrder[i] = k

\* Whether encoding v succeeds does not depend on the generator counts.
Outcome(v) == MarshalValue(v, 0).res

\* json.Marshal(record), the generators having run cnt times before: the
\* keys are encoded in sorted order up to the first value that fails, and
\* each encoded Value runs its function once, after those of smaller keys.
Marshal(record, cnt) ==
    LET bad == {Rank(k) : k \in {x \in DOMAIN record : Outcome(record[x]) # "ok"}}
        stop == IF bad = {} THEN Len(KeyOrder) + 1
                ELSE CHOOSE i \in bad : \A j \in bad : i <= j
        done == {k \in DOMAIN record : Rank(k) < stop}
        Runs(g, upto) == Cardinality({k \in done : /\ Rank(k) < upto
                                                  /\ record[k].kind = "lazy"
                                                  /\ record[k].s = g
                                                  /\ MarshalValue(record[k], cnt[g]).ran = 1})
    IN  [res |-> IF bad = {} THEN "ok" ELSE Outcome(record[KeyOrder[stop]]),
         obj |-> [k \in done |->
                    MarshalValue(record[k],
                                 IF record[k].kind = "lazy"
                                 THEN cnt[record[k].s] + Runs(record[k].s, Rank(k))
                                 ELSE 0).json],
         calls |-> [g \in DOMAIN cnt |-> cnt[g] + Runs(g, Len(KeyOrder) + 1)]]

----------------------------------------------------------------------------
(* Loggers and options.  A Logger's context is a reference into heap       *)
(* (Go maps are references); NilRef is the nil map.                        *)

NilRef == 0

Deref(h, ref) == IF ref = NilRef THEN EmptyContext ELSE h[ref]

\* The reference the application's map c has once it is stored on the heap.
\* A nil (or empty) map is kept as the nil reference: it is only ever read.
Store(h, c) ==
    IF DOMAIN c = {} THEN [heap |-> h, ref |-> NilRef]
    ELSE [heap |-> Append(h, c), ref |-> Len(h) + 1]

\* An option as the application builds it: the setter's name and argument.
Option(name, n, s, c) == [opt |-> name, n |-> n, s |-> s, c |-> c]
SetLevel(lvl) == Option("SetLevel", lvl, "", EmptyContext)
SetContext(ctx) == Option("SetContext", 0, "", ctx)
SetWriter(w) == Option("SetWriter", 0, w, EmptyContext)
SetTimeKey(key) == Option("SetTimeKey", 0, key, EmptyContext)
SetLevelKey(key) == Option("SetLevelKey", 0, key, EmptyContext)
SetMessageKey(key) == Option("SetMessageKey", 0, key, EmptyContext)
SetCallerKey(key) == Option("SetCallerKey", 0, key, EmptyContext)
SetCallerSkip(i) == Option("SetCallerSkip", i, "", EmptyContext)

\* f(l) for the option f: the error it returns, the logger and heap after it.
ApplyOption(o, l, h) ==
    CASE o.opt = "SetLevel" -> [err |-> FALSE, l |-> [l EXCEPT !.level = o.n], heap |-> h]
      [] o.opt = "SetContext" ->
           LET st == Store(h, o.c)
           IN  [err |-> FALSE, l |-> [l EXCEPT !.context = st.ref], heap |-> st.heap]
      [] o.opt = "SetWriter" -> [err |-> FALSE, l |-> [l EXCEPT !.writer = o.s], heap |-> h]
      [] o.opt = "SetTimeKey" -> [err |-> FALSE, l |-> [l EXCEPT !.timeKey = o.s], heap |-> h]
      [] o.opt = "SetLevelKey" -> [err |-> FALSE, l |-> [l EXCEPT !.levelKey = o.s], heap |-> h]
      [] o.opt = "SetMessageKey" ->
           [err |-> FALSE, l |-> [l EXCEPT !.messageKey = o.s], heap |-> h]
      [] o.opt = "SetCallerKey" ->
           [err |-> FALSE, l |-> [l EXCEPT !.callerKey = o.s], heap |-> h]
      [] o.opt = "SetCallerSkip" ->
           IF o.n < DefaultCallerSkip THEN [err |-> TRUE, l |-> l, heap |-> h]
           ELSE [err |-> FALSE, l |-> [l EXCEPT !.callerSkip = o.n], heap |-> h]

\* (mutant) every option is applied and only the last one's error returned
doOptionsLastError(options, l, h) ==
    LET F[i \in 0..Len(options)] ==
            IF i = 0 THEN [err |-> FALSE, l |-> l, heap |-> h]
            ELSE ApplyOption(options[i], F[i - 1].l, F[i - 1].heap)
    IN  F[Len(options)]

\* Logger.doOptions: the options in order, stopping at the first error.
RECURSIVE doOptions(_, _, _)
doOptions(options, l, h) ==
    IF options = <<>> THEN [err |-> FALSE, l |-> l, heap |-> h]
    ELSE LET r == ApplyOption(Head(options), l, h)
         IN  IF r.err THEN r ELSE doOptions(Tail(options), r.l, r.heap)

\* New(context, options...): ok is FALSE when it returns (nil, err); the
\* heap is then as before, the maps of a failed construction being garbage.
New(h, context, options) ==
    LET st == Store(h, context)
        l == [level |-> LevelDebug, context |-> st.ref, writer |-> "stdout",
              timeKey |-> DefaultTimeKey, levelKey |-> DefaultLevelKey,
              messageKey |-> DefaultMessageKey, callerKey |-> DefaultCallerKey,
              callerSkip |-> DefaultCallerSkip]
        r == doOptions(options, l, st.heap)
    IN  IF r.err THEN [ok |-> FALSE, l |-> l, heap |-> h]
        ELSE [ok |-> TRUE, l |-> r.l, heap |-> r.heap]

\* (mutant) the child keeps the parent's map and adds context to it
LoggerNewSharedMap(h, l, context, options) ==
    LET ctx == Overlay(Deref(h, l.context), context)
        h2 == IF l.context = NilRef THEN Append(h, ctx) ELSE [h EXCEPT ![l.context] = ctx]
        n == [callerKey |-> l.callerKey, level |-> l.level, writer |-> l.writer,
              timeKey |-> l.timeKey, levelKey |-> l.levelKey,
              messageKey |-> l.messageKey, callerSkip |-> l.callerSkip,
              context |-> IF l.context = NilRef THEN Len(h2) ELSE l.context]
        r == doOptions(options, n, h2)
    IN  IF r.err THEN [ok |-> FALSE, l |-> n, heap |-> h]
        ELSE [ok |-> TRUE, l |-> r.l, heap |-> r.heap]

\* Logger.New(context, options...) on logger l: the scalar fields copied,
\* a fresh map holding l's context overlaid with context.
LoggerNew(h, l, context, options) ==
    LET ctx == Overlay(Deref(h, l.context), context)
        h2 == Append(h, ctx)
        n == [callerKey |-> l.callerKey, level |-> l.level, writer |-> l.writer,
              timeKey |-> l.timeKey, levelKey |-> l.levelKey,
              messageKey |-> l.messageKey, callerSkip |-> l.callerSkip,
              context |-> Len(h2)]
        r == doOptions(options, n, h2)
    IN  IF r.err THEN [ok |-> FALSE, l |-> n, heap |-> h]
        ELSE [ok |-> TRUE, l |-> r.l, heap |-> r.heap]

----------------------------------------------------------------------------
(* Writers.  Write on "broken" returns an error and keeps nothing; the     *)
(* others append the chunk whole.                                          *)

Writers == {"stdout", "buf", "broken"}

WriterWrite(sk, w, data) ==
    IF w = "broken" THEN sk ELSE [sk EXCEPT ![w] = Append(@, data)]

\* (mutant) the object and the newline go out in two calls of Write
WriteCallsSplit(data) == <<<<data[1]>>, <<data[2]>>>>

\* data = append(data, '\n'); l.writer.Write(data): the calls of Write made
\* for the serialized record, each with the bytes it hands over.
WriteCalls(data) == <<data>>

\* time.Time.Format(time.RFC3339Nano): the text of the instant t.
Format(t) == [Str("time") EXCEPT !.n = t]

----------------------------------------------------------------------------
(* Logger.write, step by step.                                             *)

\* (mutant) the comparison off by one
FilteredOffByOne(l, level) == level >= l.level

\* if level > l.level { return }
Filtered(l, level) == level > l.level

\* The record after the two merge loops: the logger's context, then each
\* call-site Context in argument order.
Merge(base, context) ==
    LET F[i \in 0..Len(context)] ==
            IF i = 0 THEN base ELSE Overlay(F[i - 1], context[i])
    IN  F[Len(context)]

\* The four assignments of metadata, in the order the code makes them.
Attach(l, record, level, msg, entry, clock) ==
    LET r1 == Put(record, l.timeKey, Format(clock))
        r2 == Put(r1, l.messageKey, Str(msg))
        r3 == Put(r2, l.levelKey, Str(String(l.level)))
    IN  Put(r3, l.callerKey, caller(Stack(entry), l.callerSkip))

\* What one call of write did: passed (the threshold let it through),
\* record (the map handed to json.Marshal), res (how json.Marshal ended:
\* "ok", "err", or "panic" when it did not return), data (the bytes handed
\* to the writer), wrote (Write was called), diag (fmt.Println printed the
\* error), and the sink, generator counts and clock after it.
write(l, h, level, msg, context, entry, sk, cnt, clock) ==
    IF Filtered(l, level)
    THEN [passed |-> FALSE, record |-> EmptyContext, res |-> "none", data |-> <<>>,
          wrote |-> FALSE, diag |-> FALSE, sink |-> sk, calls |-> cnt, now |-> clock]
    ELSE LET record == Attach(l, Merge(Deref(h, l.context), context),
                              level, msg, entry, clock + 1)
             m == Marshal(record, cnt)
             data == <<m.obj, "\n">>
         IN  [passed |-> TRUE, record |-> record, res |-> m.res,
              data |-> IF m.res = "ok" THEN data ELSE <<>>,
              wrote |-> m.res = "ok", diag |-> m.res = "err",
              sink |-> IF m.res = "ok" THEN WriterWrite(sk, l.writer, data) ELSE sk,
              calls |-> m.calls, now |-> clock + 1]

----------------------------------------------------------------------------
(* The inputs the application draws from.                                  *)

Generators == {"world", "pair", "notfunc", "nilfunc", "args", "noret"}

Messages == {"this is the message"}

CtxBar == One("bar", Str("baz"))
CtxFoo == One("foo", Str("bar"))
CtxKid == [k \in {"bar", "kid"} |-> IF k = "bar" THEN Str("kid") ELSE Str("new")]
\* a call-site context that collides with every key in sight
CtxSpoof == [k \in {"", "bar", "caller", "foo", "lvl", "message", "msg", "ts"} |->
               IF k = "foo" THEN Str("qux") ELSE Str("spoof")]
\* a logger context with a plain field, a lazy one and a reserved name
CtxHello == [k \in {"bar", "hello", "message"} |->
               CASE k = "bar" -> Str("baz")
                 [] k = "hello" -> Lazy("world", "func", 0, 1)
                 [] k = "message" -> Str("spoof")]
CtxShadow == One("hello", Str("shadow"))
CtxZap == One("zap", Lazy("world", "func", 0, 1))
CtxPair == One("pair", Lazy("pair", "func", 0, 2))
CtxNotFunc == One("bad", Lazy("notfunc", "notfunc", 0, 0))
CtxNilFunc == One("bad", Lazy("nilfunc", "nil", 0, 0))
CtxArgs == One("zap", Lazy("args", "func", 1, 1))
CtxNoRet == One("zap", Lazy("noret", "func", 0, 0))

Construction(context, options) == [context |-> context, options |-> options]

\* The option lists of the pipeline scenario: every threshold, every writer,
\* renamed and emptied field names, every kind of caller skip.
PipelineOptions ==
    { <<>>,
      <<SetWriter("buf")>>,
      <<SetWriter("buf"), SetLevel(LevelInfo)>>,
      <<SetLevel(LevelError)>>,
      <<SetLevel(LevelFatal), SetWriter("buf")>>,
      <<SetLevel(LevelInfo), SetLevel(LevelDebug)>>,
      <<SetWriter("broken")>>,
      <<SetWriter("buf"), SetMessageKey("msg")>>,
      <<SetCallerKey("")>>,
      <<SetCallerKey(""), SetLevel(LevelInfo)>>,
      <<SetCallerSkip(3)>>,
      <<SetCallerSkip(9)>>,
      <<SetCallerSkip(1)>>,
      <<SetContext(CtxBar)>> }

\* A scenario: the arguments the application picks for each operation.
Pipeline ==
    [ news |-> {Construction(EmptyContext, o) : o \in PipelineOptions}
               \cup {Construction(CtxHello, o) :
                       o \in {<<>>, <<SetWriter("buf")>>, <<SetLevel(LevelInfo)>>,
                              <<SetCallerKey("")>>}},
      derives |-> {Construction(CtxBar, <<>>), Construction(CtxHello, <<SetWriter("buf")>>)},
      lists |-> {<<>>, <<CtxFoo>>, <<CtxFoo, CtxSpoof>>, <<CtxShadow>>, <<CtxZap>>,
                 <<CtxPair>>, <<CtxNotFunc>>, <<CtxNilFunc>>, <<CtxArgs>>, <<CtxNoRet>>},
      pkgLists |-> {<<>>, <<CtxFoo>>},
      maxLoggers |-> MaxLoggers ]

\* The family scenario: loggers with contexts and settings of their own,
\* children derived from them, and one context at every call site.
Family ==
    [ news |-> { Construction(CtxBar, <<SetWriter("buf")>>),
                 Construction(CtxHello, <<SetLevel(LevelInfo), SetMessageKey("msg")>>),
                 Construction(EmptyContext, <<SetCallerKey(""), SetCallerSkip(3)>>),
                 Construction(CtxBar, <<SetTimeKey("time"), SetLevelKey("level")>>),
                 Construction(CtxBar, <<SetCallerSkip(1)>>),
                 Construction(EmptyContext, <<SetWriter("buf"), SetCallerSkip(0)>>),
                 Construction(EmptyContext, <<SetCallerSkip(0), SetWriter("buf")>>),
                 Construction(CtxBar, <<SetLevel(LevelInfo), SetCallerSkip(1),
                                        SetWriter("buf")>>) },
      derives |-> { Construction(EmptyContext, <<>>),
                    Construction(CtxBar, <<>>),
                    Construction(CtxKid, <<>>),
                    Construction(CtxKid, <<SetLevel(LevelError), SetWriter("broken")>>),
                    Construction(CtxKid, <<SetContext(CtxFoo)>>),
                    Construction(CtxKid, <<SetCallerSkip(1)>>),
                    Construction(CtxBar, <<SetMessageKey("m"), SetCallerSkip(0),
                                           SetCallerKey("")>>),
                    Construction(CtxKid, <<SetCallerSkip(4), SetCallerKey("")>>) },
      lists |-> {<<CtxFoo>>},
      pkgLists |-> {<<>>},
      maxLoggers |-> MaxFamily ]

----------------------------------------------------------------------------
(* The state machine.                                                      *)

NoLast == [op |-> "init"]

\* A goroutine that has not called the logger yet.
Idle == [pc |-> "idle", logger |-> 0, level |-> 0, passed |-> FALSE, res |-> "none",
         data |-> <<>>, pending |-> <<>>, nwrites |-> 0]

\* How a logger came to be: its parent (0 for New), the context argument,
\* and the parent's context at that moment.
Birth(parent, context, inherited) ==
    [parent |-> parent, context |-> context, inherited |-> inherited]

Init ==
    /\ loggers = <<New(<<>>, EmptyContext, <<>>).l>>      \* init(): defaultLogger
    /\ heap = <<>>
    /\ sink = [w \in Writers |-> <<>>]
    /\ calls = [g \in Generators |-> 0]
    /\ now = 0
    /\ ncalls = 0
    /\ proc = "running"
    /\ goroutines = [g \in 1..MaxGoroutines |-> Idle]
    /\ family = <<Birth(0, EmptyContext, EmptyContext)>>
    /\ last = NoLast

\* The application calls New(context, options...); ret is the *Logger it
\* gets, 0 for nil.
NewLogger(u) ==
    /\ proc = "running"
    /\ Len(loggers) < 1 + u.maxLoggers
    /\ \E c \in u.news :
       LET r == New(heap, c.context, c.options)
       IN  /\ loggers' = IF r.ok THEN Append(loggers, r.l) ELSE loggers
           /\ heap' = r.heap
           /\ family' = IF r.ok THEN Append(family, Birth(0, c.context, EmptyContext))
                        ELSE family
           /\ last' = [op |-> "New", parent |-> 0, context |-> c.context,
                       options |-> c.options, ok |-> r.ok,
                       ret |-> IF r.ok THEN Len(loggers) + 1 ELSE 0,
                       loggersBefore |-> loggers, heapBefore |-> heap]
           /\ UNCHANGED <<sink, calls, now, ncalls, proc, goroutines>>

\* The application calls p.New(context, options...) on a logger it holds.
DeriveLogger(u) ==
    /\ proc = "running"
    /\ Len(loggers) < 1 + u.maxLoggers
    /\ \E p \in 1..Len(loggers), c \in u.derives :
       LET r == LoggerNew(heap, loggers[p], c.context, c.options)
       IN  /\ loggers' = IF r.ok THEN Append(loggers, r.l) ELSE loggers
           /\ heap' = r.heap
           /\ family' = IF r.ok
                        THEN Append(family, Birth(p, c.context, Deref(heap, loggers[p].context)))
                        ELSE family
           /\ last' = [op |-> "Logger.New", parent |-> p, context |-> c.context,
                       options |-> c.options, ok |-> r.ok,
                       ret |-> IF r.ok THEN Len(loggers) + 1 ELSE 0,
                       loggersBefore |-> loggers, heapBefore |-> heap]
           /\ UNCHANGED <<sink, calls, now, ncalls, proc, goroutines>>

\* One leveled call on loggers[i]: l.write(level, msg, context), and for
\* Fatal os.Exit(-1) once write has returned.  A panic inside write unwinds
\* through the method, so nothing after the call of write runs; it then
\* either ends the process or is recovered by the application.
Leveled(i, level, msg, context, entry) ==
    /\ proc = "running"
    /\ ncalls < MaxCalls
    /\ \E r \in {write(loggers[i], heap, level, msg, context, entry, sink, calls, now)} :
        /\ ncalls' = ncalls + 1
        /\ sink' = r.sink
        /\ calls' = r.calls
        /\ now' = r.now
        /\ proc' \in IF r.res = "panic" THEN {"crashed", "running"}
                     ELSE IF level = LevelFatal THEN {"exited"} ELSE {"running"}
        /\ last' = [op |-> "log", logger |-> i, level |-> level, msg |-> msg,
                    context |-> context, entry |-> entry,
                    passed |-> r.passed, record |-> r.record, res |-> r.res,
                    data |-> r.data, wrote |-> r.wrote, diag |-> r.diag,
                    outcome |-> IF r.res = "panic" THEN "panic"
                                ELSE IF level = LevelFatal THEN "exit" ELSE "return",
                    sinkBefore |-> sink, callsBefore |-> calls, nowBefore |-> now]
        /\ UNCHANGED <<loggers, heap, family, goroutines>>

LoggerFatal(u) == \E i \in 1..Len(loggers), msg \in Messages, context \in u.lists :
                     Leveled(i, LevelFatal, msg, context, "method")
LoggerError(u) == \E i \in 1..Len(loggers), msg \in Messages, context \in u.lists :
                     Leveled(i, LevelError, msg, context, "method")
LoggerInfo(u) == \E i \in 1..Len(loggers), msg \in Messages, context \in u.lists :
                     Leveled(i, LevelInfo, msg, context, "method")
LoggerDebug(u) == \E i \in 1..Len(loggers), msg \in Messages, context \in u.lists :
                     Leveled(i, LevelDebug, msg, context, "method")

\* The package-level functions: the same methods of defaultLogger, called
\* from one frame further away from the application.
Fatal(u) == \E msg \in Messages, context \in u.pkgLists :
               Leveled(1, LevelFatal, msg, context, "package")
Error(u) == \E msg \in Messages, context \in u.pkgLists :
               Leveled(1, LevelError, msg, context, "package")
Info(u) == \E msg \in Messages, context \in u.pkgLists :
               Leveled(1, LevelInfo, msg, context, "package")
Debug(u) == \E msg \in Messages, context \in u.pkgLists :
               Leveled(1, LevelDebug, msg, context, "package")

Step(u) ==
    \/ NewLogger(u)
    \/ DeriveLogger(u)
    \/ LoggerFatal(u)
    \/ LoggerError(u)
    \/ LoggerInfo(u)
    \/ LoggerDebug(u)
    \/ Fatal(u)
    \/ Error(u)
    \/ Info(u)
    \/ Debug(u)

Next == Step(Pipeline)

Spec == Init /\ [][Next]_vars

NextFamily == Step(Family)

SpecFamily == Init /\ [][NextFamily]_vars

----------------------------------------------------------------------------
(* The level names.  The application converts Levels to names and names    *)
(* to Levels, and configures a logger from a name it read.                 *)

\* The integers the application converts to a Level: the four defined ones
\* and some on either side of them.
LevelValues == (0 - 1)..MaxLevelValue

\* The names the application parses: what String returns, the synonyms,
\* and names LevelFromString does not know.
LevelNames ==
    {String(n) : n \in LevelValues}
    \cup {"eror", "err", "", "DEBUG", "Info", "warn", "erro", "errors", "fatals", "3"}

\* Level(n).String()
LevelStringCall ==
    /\ proc = "running"
    /\ \E n \in LevelValues : last' = [op |-> "String", level |-> n, s |-> String(n)]
    /\ UNCHANGED <<loggers, heap, sink, calls, now, ncalls, proc, goroutines, family>>

\* LevelFromString(s)
LevelFromStringCall ==
    /\ proc = "running"
    /\ \E s \in LevelNames :
          last' = [op |-> "LevelFromString", s |-> s,
                   level |-> LevelFromString(s).level, err |-> LevelFromString(s).err]
    /\ UNCHANGED <<loggers, heap, sink, calls, now, ncalls, proc, goroutines, family>>

\* LevelFromString(Level(n).String())
RoundTrip ==
    /\ proc = "running"
    /\ \E n \in LevelValues :
          last' = [op |-> "RoundTrip", from |-> n, s |-> String(n),
                   level |-> LevelFromString(String(n)).level,
                   err |-> LevelFromString(String(n)).err]
    /\ UNCHANGED <<loggers, heap, sink, calls, now, ncalls, proc, goroutines, family>>

\* lvl, err := LevelFromString(s); if err == nil { New(nil, SetLevel(lvl)) }
Configure ==
    /\ proc = "running"
    /\ Len(loggers) < 1 + MaxLoggers
    /\ \E s \in LevelNames :
       LET p == LevelFromString(s)
           r == New(heap, EmptyContext, <<SetLevel(p.level)>>)
       IN  /\ loggers' = IF p.err THEN loggers ELSE Append(loggers, r.l)
           /\ family' = IF p.err THEN family
                        ELSE Append(family, Birth(0, EmptyContext, EmptyContext))
           /\ last' = [op |-> "Configure", s |-> s, level |-> p.level, err |-> p.err,
                       ret |-> IF p.err THEN 0 ELSE Len(loggers) + 1]
           /\ UNCHANGED <<heap, sink, calls, now, ncalls, proc, goroutines>>

NextLevels ==
    \/ LevelStringCall
    \/ LevelFromStringCall
    \/ RoundTrip
    \/ Configure

SpecLevels == Init /\ [][NextLevels]_vars

----------------------------------------------------------------------------
(* Concurrent callers.  Each goroutine makes one leveled call; the library *)
(* takes no lock, so the calls interleave between the serialization and    *)
(* each call of Write, and between the last Write and the return.  Write   *)
(* itself is atomic: that is the sink's contract.                          *)

\* What the goroutines log, and the loggers they share.
Concurrent ==
    [ news |-> { Construction(EmptyContext, <<SetWriter("buf")>>),
                 Construction(CtxHello, <<SetWriter("buf"), SetLevel(LevelInfo)>>),
                 Construction(EmptyContext, <<SetWriter("broken")>>) },
      derives |-> {},
      lists |-> {<<>>, <<CtxFoo>>, <<CtxArgs>>, <<CtxNilFunc>>},
      pkgLists |-> {},
      maxLoggers |-> MaxLoggers ]

\* Goroutine g enters a leveled method: write up to json.Marshal, which
\* touches no sink.  Goroutines are numbered in the order they enter.
Enter(g, u) ==
    /\ proc = "running"
    /\ goroutines[g].pc = "idle"
    /\ g > 1 => goroutines[g - 1].pc # "idle"
    /\ \E i \in 1..Len(loggers), level \in Levels, msg \in Messages, context \in u.lists :
       \E r \in {write(loggers[i], heap, level, msg, context, "method", sink, calls, now)} :
          /\ goroutines' = [goroutines EXCEPT ![g] =
                [pc |-> IF r.res = "panic" THEN "panicked"
                        ELSE IF r.res = "ok" THEN "writing" ELSE "returning",
                 logger |-> i, level |-> level, passed |-> r.passed, res |-> r.res,
                 data |-> r.data,
                 pending |-> IF r.res = "ok" THEN WriteCalls(r.data) ELSE <<>>,
                 nwrites |-> 0]]
          /\ calls' = r.calls
          /\ now' = r.now
          /\ ncalls' = ncalls + 1
          /\ proc' \in IF r.res = "panic" THEN {"crashed", "running"} ELSE {"running"}
          /\ UNCHANGED <<loggers, heap, sink, family, last>>

\* l.writer.Write(...): the next call of Write of goroutine g.
WriteStep(g) ==
    /\ proc = "running"
    /\ goroutines[g].pc = "writing"
    /\ sink' = WriterWrite(sink, loggers[goroutines[g].logger].writer,
                           Head(goroutines[g].pending))
    /\ goroutines' = [goroutines EXCEPT
                        ![g].pending = Tail(@),
                        ![g].nwrites = @ + 1,
                        ![g].pc = IF Len(goroutines[g].pending) = 1
                                  THEN "returning" ELSE "writing"]
    /\ UNCHANGED <<loggers, heap, calls, now, ncalls, proc, family, last>>

\* write returns to the leveled method, and Fatal calls os.Exit(-1).
Return(g) ==
    /\ proc = "running"
    /\ goroutines[g].pc = "returning"
    /\ goroutines' = [goroutines EXCEPT ![g].pc = "returned"]
    /\ proc' = IF goroutines[g].level = LevelFatal THEN "exited" ELSE proc
    /\ UNCHANGED <<loggers, heap, sink, calls, now, ncalls, family, last>>

GoEnter == \E g \in 1..MaxGoroutines : Enter(g, Concurrent)
GoWrite == \E g \in 1..MaxGoroutines : WriteStep(g)
GoReturn == \E g \in 1..MaxGoroutines : Return(g)

NextConcurrent ==
    \/ NewLogger(Concurrent)
    \/ GoEnter
    \/ GoWrite
    \/ GoReturn

SpecConcurrent == Init /\ [][NextConcurrent]_vars

----------------------------------------------------------------------------
(* Properties.  They are stated over the last operation and the state it   *)
(* left behind.                                                            *)

\* The JSON object of the record the last call handed to its writer.
Object == last.data[1]

\* The configured field names of logger l.
Reserved(l) == {l.timeKey, l.messageKey, l.levelKey, l.callerKey}

\* C1: a leveled call at event level E on a logger of threshold T hands a
\* record to the sink if and only if E <= T and serialization succeeded, the
\* record then being appended to what the logger's writer holds; a call with
\* E > T writes nothing and leaves every sink as it was.
C1_ThresholdFilter ==
    last.op = "log" =>
        LET l == loggers[last.logger]
        IN  /\ last.passed <=> last.level <= l.level
            /\ last.wrote <=> (last.level <= l.level /\ last.res = "ok")
            /\ last.passed => last.res \in {"ok", "err", "panic"}
            /\ last.wrote /\ l.writer # "broken" =>
                  /\ sink[l.writer] = Append(last.sinkBefore[l.writer], last.data)
                  /\ \A w \in Writers \ {l.writer} : sink[w] = last.sinkBefore[w]
            /\ ~(last.wrote /\ l.writer # "broken") => sink = last.sinkBefore

\* C1's case: a call below the threshold, made after a record was written.
C1_Witness ==
    /\ last.op = "log"
    /\ last.level > loggers[last.logger].level
    /\ last.sinkBefore["buf"] # <<>>

\* C2: every emitted record carries, under the level-field name, the string
\* of the level of the event being logged.
C2_EventLevel ==
    (last.op = "log" /\ last.wrote) =>
        LET l == loggers[last.logger]
        IN  Object[l.levelKey] = JString(String(last.level), 0)

\* The sources of user fields of the last call, in merge order: the
\* logger's persistent context, then the call-site Contexts as given.
Sources == <<Deref(heap, loggers[last.logger].context)>> \o last.context

\* The sources that define key k.
Defining(k) == {i \in 1..Len(Sources) : k \in DOMAIN Sources[i]}

\* The value the last source defining k gives it.
Given(k) == Sources[CHOOSE i \in Defining(k) : \A j \in Defining(k) : j <= i][k]

\* j is an encoding of the user value v made during the last call.
Encodes(j, v) ==
    IF v.kind = "lazy"
    THEN /\ j.s = v.s
         /\ j.json = IF v.out = 1 THEN "string" ELSE "array"
         /\ j.len = IF v.out = 1 THEN 0 ELSE v.out
         /\ j.n \in (last.callsBefore[v.s] + 1)..calls[v.s]
    ELSE j = JString(v.s, v.n)

\* C3: in every emitted record each non-reserved key has the value of the
\* last source defining it (logger context, then the call-site Contexts in
\* argument order); a key no source defines is absent and every key some
\* source defines is present.
C3_MergePrecedence ==
    (last.op = "log" /\ last.wrote) =>
        LET l == loggers[last.logger]
            keys == UNION {DOMAIN Sources[i] : i \in 1..Len(Sources)}
        IN  /\ DOMAIN Object \ Reserved(l) = keys \ Reserved(l)
            /\ \A k \in keys \ Reserved(l) : Encodes(Object[k], Given(k))

\* C3's case: logger and call site define "bar", two call-site Contexts
\* define "foo", and one key has a single source.
C3_Witness ==
    /\ last.op = "log" /\ last.wrote
    /\ Len(last.context) = 2
    /\ Cardinality(Defining("bar")) = 2
    /\ Cardinality(Defining("foo")) = 2
    /\ Cardinality(Defining("hello")) = 1
    /\ Object["bar"] = JString("spoof", 0)
    /\ Object["foo"] = JString("qux", 0)

\* The frames of the stack of the last call.
Frames == {Stack(last.entry)[i] : i \in 1..Len(Stack(last.entry))}

\* C4: reserved field names are not user-overridable: in every emitted
\* record, a key some source defines that equals the message- (time-, level-,
\* caller-) field name holds the event's message (timestamp, level string,
\* caller) and not the user-supplied value.
C4_ReservedNotOverridable ==
    (last.op = "log" /\ last.wrote) =>
        LET l == loggers[last.logger]
        IN  \A k \in Reserved(l) :
              Defining(k) # {} =>
                /\ k = l.messageKey => Object[k] = JString(last.msg, 0)
                /\ k = l.timeKey => Object[k] = JString("time", last.nowBefore + 1)
                /\ k = l.levelKey => Object[k] = JString(String(last.level), 0)
                /\ k = l.callerKey => Object[k].s \in Frames

\* The scalar fields of a Logger and the option that sets each.
Setter ==
    [level |-> "SetLevel", writer |-> "SetWriter", timeKey |-> "SetTimeKey",
     levelKey |-> "SetLevelKey", messageKey |-> "SetMessageKey",
     callerKey |-> "SetCallerKey", callerSkip |-> "SetCallerSkip"]

\* Whether the options of the last construction include the setter named opt.
Sets(opt) == \E i \in 1..Len(last.options) : last.options[i].opt = opt

\* C5: p.New(extra, options...) yields a logger whose level, writer, field
\* names and caller skip are the parent's wherever no option sets them and
\* whose context is the parent's overlaid with extra (extra winning); the
\* derivation changes no existing logger and no existing logger's context;
\* and no record later emitted through a parent holds a key that only a
\* child's extra context added.
C5_ChildIndependence ==
    /\ (last.op = "Logger.New" /\ last.ok) =>
          LET p == last.loggersBefore[last.parent]
              pc == Deref(last.heapBefore, p.context)
              n == loggers[last.ret]
              nc == Deref(heap, n.context)
          IN  /\ \A f \in DOMAIN Setter : ~Sets(Setter[f]) => n[f] = p[f]
              /\ ~Sets("SetContext") =>
                    /\ DOMAIN nc = DOMAIN pc \cup DOMAIN last.context
                    /\ \A k \in DOMAIN nc :
                          nc[k] = IF k \in DOMAIN last.context THEN last.context[k]
                                  ELSE pc[k]
    /\ last.op = "Logger.New" =>
          \A i \in 1..Len(last.loggersBefore) :
             /\ loggers[i] = last.loggersBefore[i]
             /\ Deref(heap, loggers[i].context)
                  = Deref(last.heapBefore, last.loggersBefore[i].context)
    /\ (last.op = "log" /\ last.wrote) =>
          \A c \in 1..Len(family) :
             family[c].parent = last.logger =>
                \A k \in DOMAIN family[c].context \ DOMAIN family[c].inherited :
                   k \in DOMAIN Object =>
                      \/ k \in Reserved(loggers[last.logger])
                      \/ \E i \in 1..Len(last.context) : k \in DOMAIN last.context[i]

\* C5's case: a record emitted through a parent whose child was derived
\* with a context that overrides one of the parent's keys and adds another.
C5_Witness ==
    /\ last.op = "log" /\ last.wrote
    /\ \E c \in 1..Len(family) :
          /\ family[c].parent = last.logger
          /\ family[c].context = CtxKid
          /\ "bar" \in DOMAIN family[c].inherited
          /\ Deref(heap, loggers[c].context)["bar"] = Str("kid")
    /\ Object["bar"] = JString("baz", 0)

\* The options of the last construction that fail: a caller skip below the floor.
FailingOptions ==
    {i \in 1..Len(last.options) :
        last.options[i].opt = "SetCallerSkip" /\ last.options[i].n < 2}

\* C6: New and Logger.New return an error and no Logger exactly when some
\* option of the list fails (SetCallerSkip(i) with i < 2), whatever precedes
\* or follows it; a failed construction leaves every existing logger, the
\* parent included, and every context unchanged.
C6_AtomicConstruction ==
    last.op \in {"New", "Logger.New"} =>
        /\ last.ok <=> FailingOptions = {}
        /\ ~last.ok => /\ last.ret = 0
                       /\ loggers = last.loggersBefore
                       /\ heap = last.heapBefore
        /\ last.ok => /\ last.ret = Len(last.loggersBefore) + 1
                      /\ Len(loggers) = last.ret
                      /\ loggers[last.ret].callerSkip >= 2

\* C6's case: a derivation that fails on an option with options before and
\* after it, on a parent that has a context of its own.
C6_Witness ==
    /\ last.op = "Logger.New" /\ ~last.ok
    /\ \E i \in FailingOptions : 1 < i /\ i < Len(last.options)
    /\ last.parent > 1
    /\ loggers[last.parent].context # NilRef

\* C7: every call of a Fatal method attempts the emission and then ends the
\* process with a non-zero status, whether the record was written, filtered,
\* failed to serialize or the sink failed: after a Fatal call the process is
\* never still running, and a record that passed and serialized was handed
\* to the writer first.
C7_FatalTerminates ==
    (last.op = "log" /\ last.level = LevelFatal) =>
        /\ proc # "running"
        /\ (last.passed /\ last.res = "ok") => last.wrote

\* A Lazy Value whose Func is not a function, is nil, takes arguments or
\* returns nothing.
Malformed(v) == v.kind = "lazy" /\ (v.shape # "func" \/ v.in > 0 \/ v.out = 0)

\* C8: a non-Fatal call whose merged record holds an unencodable value
\* returns normally to its caller, writes nothing to the sink and emits a
\* diagnostic on the fallback channel.
C8_SerializationContained ==
    (/\ last.op = "log" /\ last.level # LevelFatal /\ last.passed
     /\ \E k \in DOMAIN last.record : Malformed(last.record[k])) =>
        /\ last.outcome = "return"
        /\ proc = "running"
        /\ sink = last.sinkBefore
        /\ last.diag

\* The generators wrapped by the Lazy Values that the logger's context and
\* the call-site Contexts of the last call hold.
Held ==
    {g \in Generators :
        \E i \in 1..Len(Sources) : \E k \in DOMAIN Sources[i] :
            Sources[i][k].kind = "lazy" /\ Sources[i][k].s = g}

\* C9 as stated: the function of a Lazy Value held in the logger's context
\* or a call-site Context is invoked exactly once for each emitted record,
\* which carries the value of that invocation, and not at all by a call the
\* threshold rejects.
C9_OncePerRecord ==
    last.op = "log" =>
        \A g \in Held :
            /\ last.wrote =>
                  /\ calls[g] = last.callsBefore[g] + 1
                  /\ \E k \in DOMAIN Object : Object[k].s = g /\ Object[k].n = calls[g]
            /\ ~last.passed => calls[g] = last.callsBefore[g]

\* The user keys of the merged record of the last call that hold a Lazy
\* Value of generator g.
Holding(g) ==
    {k \in UNION {DOMAIN Sources[i] : i \in 1..Len(Sources)}
           \ Reserved(loggers[last.logger]) :
        Given(k).kind = "lazy" /\ Given(k).s = g}

\* C9, amended: for each emitted record the function of a Lazy Value is
\* invoked once for every key of the merged record that holds it (not at
\* all when a later source or a reserved field replaces it, once per key
\* when several keys hold it), each such key carrying the value of its own
\* fresh invocation; a call the threshold rejects invokes nothing.
C9_OncePerHoldingKey ==
    last.op = "log" =>
        /\ ~last.passed => calls = last.callsBefore
        /\ last.wrote =>
              \A g \in Generators :
                 /\ calls[g] = last.callsBefore[g] + Cardinality(Holding(g))
                 /\ \A k \in Holding(g) : Object[k].s = g
                 /\ {Object[k].n : k \in Holding(g)}
                      = (last.callsBefore[g] + 1)..calls[g]

\* C9's case: a second record, emitted with one generator under two keys.
C9_Witness ==
    /\ last.op = "log" /\ last.wrote
    /\ last.callsBefore["world"] >= 1
    /\ Holding("world") = {"hello", "zap"}
    /\ Object["hello"].n # Object["zap"].n

\* C10: an emitted record holds a caller entry only if a caller key was
\* configured: with an empty caller key no entry of the record is a call
\* location, with caller key K the entry K is the resolved location.
C10_CallerOnlyIfConfigured ==
    (last.op = "log" /\ last.wrote) =>
        LET l == loggers[last.logger]
        IN  /\ l.callerKey = "" => \A k \in DOMAIN Object : Object[k].s \notin Frames
            /\ l.callerKey # "" => /\ l.callerKey \in DOMAIN Object
                                   /\ Object[l.callerKey].s \in Frames

\* C11: for each defined Level L, LevelFromString(L.String()) returns L and
\* no error; "eror" and "err" parse to the Level "error" parses to; every
\* other name, "unknown" (the String of an out-of-range Level) included, is
\* reported as a parse failure.
C11_LevelRoundTrip ==
    /\ last.op = "RoundTrip" =>
          /\ last.from \in Levels => (~last.err /\ last.level = last.from)
          /\ last.from \notin Levels => (last.s = "unknown" /\ last.err)
    /\ last.op = "LevelFromString" =>
          /\ last.s \in {"error", "eror", "err"} => (~last.err /\ last.level = LevelError)
          /\ last.s = "debug" => (~last.err /\ last.level = LevelDebug)
          /\ last.s = "info" => (~last.err /\ last.level = LevelInfo)
          /\ last.s = "fatal" => (~last.err /\ last.level = LevelFatal)
          /\ last.s \notin {"debug", "info", "error", "eror", "err", "fatal"} => last.err
    /\ last.op = "Configure" =>
          /\ last.err <=> last.s \notin {"debug", "info", "error", "eror", "err", "fatal"}
          /\ ~last.err => String(loggers[last.ret].level)
                            = IF last.s \in {"eror", "err"} THEN "error" ELSE last.s

\* C11's case: a logger configured from a synonym, after which the name
\* "unknown" is parsed.
C11_Witness ==
    /\ last.op = "LevelFromString" /\ last.s = "unknown" /\ last.err
    /\ \E i \in 2..Len(loggers) : loggers[i].level = LevelError

\* C12: when the sink's Write reports a failure for an event at a
\* non-Fatal level, the call returns normally, a diagnostic is printed and
\* the record is dropped: no sink holds it, then or later.
C12_WriteFailureReported ==
    (/\ last.op = "log" /\ last.level # LevelFatal
     /\ last.wrote /\ loggers[last.logger].writer = "broken") =>
        /\ last.outcome = "return"
        /\ proc = "running"
        /\ sink = last.sinkBefore
        /\ last.diag

\* C14: with the default caller skip, the caller field of every emitted
\* record names the application frame that called the leveled entry point,
\* never a frame of the logging library, for the Logger methods and for the
\* package-level functions alike.
C14_CallerIsApplicationFrame ==
    (/\ last.op = "log" /\ last.wrote
     /\ loggers[last.logger].callerSkip = DefaultCallerSkip) =>
        LET l == loggers[last.logger]
        IN  /\ l.callerKey \in DOMAIN Object
            /\ Object[l.callerKey] = JString(AppStack[1], 0)

\* The goroutines whose call has handed bytes to writer w.
Wrote(w) ==
    {g \in 1..MaxGoroutines :
        /\ goroutines[g].nwrites > 0
        /\ loggers[goroutines[g].logger].writer = w}

\* C13: a call that passes the threshold and serializes makes exactly one
\* call of Write, with one whole JSON object and one newline, and returns
\* only after it; a filtered or failed call makes none.  So under every
\* interleaving each writer holds whole records only, one for each event
\* written to it, none split and none twice.
C13_OneWritePerRecord ==
    /\ \A g \in 1..MaxGoroutines :
          LET t == goroutines[g]
          IN  /\ t.pc \in {"returning", "returned"} =>
                    /\ t.pending = <<>>
                    /\ t.nwrites = IF t.passed /\ t.res = "ok" THEN 1 ELSE 0
              /\ t.pc = "panicked" => t.nwrites = 0
              /\ t.nwrites <= 1
              /\ (t.passed /\ t.res = "ok") => (Len(t.data) = 2 /\ t.data[2] = "\n")
    /\ \A w \in Writers \ {"broken"} :
          /\ Len(sink[w]) = Cardinality(Wrote(w))
          /\ \A i \in 1..Len(sink[w]) :
                /\ Len(sink[w][i]) = 2
                /\ sink[w][i][2] = "\n"
                /\ \E g \in Wrote(w) : goroutines[g].data = sink[w][i]
          /\ \A i, j \in 1..Len(sink[w]) : i # j => sink[w][i] # sink[w][j]
    /\ sink["broken"] = <<>>

\* C13's case: two calls on one logger were both serialized before either
\* wrote, and the one that entered second wrote first.
C13_Witness ==
    /\ goroutines[1].pc = "returned" /\ goroutines[2].pc = "returned"
    /\ goroutines[1].logger = goroutines[2].logger
    /\ goroutines[1].nwrites = 1 /\ goroutines[2].nwrites = 1
    /\ Len(sink["buf"]) = 2
    /\ sink["buf"][1] = goroutines[2].data
    /\ sink["buf"][2] = goroutines[1].data

====
